---------------------------- MODULE Spec2Model ----------------------------
(***************************************************************************)
(* Model of the Ekasi Cart shop API order middleware:                      *)
(*   - the shared HTTP client (src/common/celler-hut-client.ts): the       *)
(*     process-wide token slot and the request / response / error          *)
(*     interceptors;                                                       *)
(*   - the order facade CellerHutOrdersService: one operation per order    *)
(*     lifecycle call, each suspended at its outbound request(s).          *)
(* JSON values are records tagged by their JavaScript type.                *)
(***************************************************************************)
EXTENDS Integers, Sequences, FiniteSets, TLC

VARIABLES authToken, pc, call, sent, received, result, memo, race, earlier,
          client, flow

vars == <<authToken, pc, call, sent, received, result, memo, race, earlier,
          client, flow>>

\* The field names of the records below.  TLC keeps the fields of a record in
\* the order in which their names first occur in the module; every record is
\* written in this order, so that it is in normal form from the moment it is
\* built.
FieldNames ==
    DOMAIN [Authorization |-> {}, a |-> {}, amount |-> {}, answer |-> {}, arg |-> {},
            args |-> {}, available_coupons |-> {},
            average_order_value |-> {}, b |-> {}, body |-> {},
            cancelled_orders |-> {}, carrier |-> {}, checkoutId |-> {},
            code |-> {}, completed_orders |-> {}, current_page |-> {},
            customer |-> {}, customer_id |-> {}, data |-> {},
            deliveryService |-> {}, delivery_service |-> {}, error |-> {},
            errors |-> {}, estimated_delivery |-> {}, f |-> {},
            generated_at |-> {}, got |-> {}, gps_tracking |-> {}, hasResponse |-> {},
            headers |-> {}, id |-> {}, invoice_number |-> {},
            invoice_url |-> {}, items |-> {}, kind |-> {}, last |-> {},
            limit |-> {}, message |-> {}, method |-> {}, n |-> {},
            ok |-> {}, op |-> {}, order |-> {}, orderId |-> {},
            orderNumber |-> {}, orderStatus |-> {}, order_status |-> {},
            outcome |-> {}, page |-> {}, params |-> {}, payment |-> {},
            paymentUrl |-> {}, payment_intent |-> {}, payment_status |-> {},
            pending_orders |-> {}, pos |-> {}, probe |-> {}, raw |-> {}, rawError |-> {},
            req |-> {}, responses |-> {}, s |-> {}, search |-> {},
            seen |-> {}, sessionId |-> {}, shipping_charge |-> {},
            shipping_zone |-> {}, shop_id |-> {}, slot |-> {},
            status |-> {}, statusCode |-> {}, storefront_order |-> {},
            success |-> {}, t |-> {}, token |-> {}, tookan_job_id |-> {},
            total |-> {}, total_orders |-> {}, total_revenue |-> {},
            total_tax |-> {}, trackingEnabled |-> {}, trackingUrl |-> {},
            tracking_enabled |-> {}, tracking_events |-> {},
            tracking_number |-> {}, tracking_url |-> {},
            transactionId |-> {}, transaction_id |-> {},
            unavailable_products |-> {}, updated_at |-> {},
            upstream_order |-> {}, url |-> {}, validated |-> {},
            value |-> {}]

-----------------------------------------------------------------------------
(* JSON / JavaScript values *)

Undef == [t |-> "undef"]
Null == [t |-> "null"]
Str(s) == [s |-> s, t |-> "str"]
Num(n) == [n |-> n, t |-> "num"]
Bool(b) == [b |-> b, t |-> "bool"]
Arr(a) == [a |-> a, t |-> "arr"]
Obj(f) == [f |-> f, t |-> "obj"]

EmptyObj == Obj(<<>>)

\* JavaScript truthiness: undefined, null, "", 0 and false are falsy.
Truthy(v) ==
    CASE v.t = "undef" -> FALSE
      [] v.t = "null" -> FALSE
      [] v.t = "str" -> v.s # ""
      [] v.t = "num" -> v.n # 0
      [] v.t = "bool" -> v.b
      [] OTHER -> TRUE

\* a || b
OrElse(a, b) == IF Truthy(a) THEN a ELSE b

\* Reading a property of undefined or null throws a TypeError.
Nullish(v) == v.t \in {"undef", "null"}

\* v.k for a non-nullish v: the field of an object, undefined otherwise.
Get(v, k) == IF v.t = "obj" /\ k \in DOMAIN v.f THEN v.f[k] ELSE Undef

\* typeof v === 'object' (null, arrays and objects)
TypeofObject(v) == v.t \in {"null", "arr", "obj"}

\* o.k = v on an object
Put(o, k, v) == Obj((k :> v) @@ o.f)

\* { ...a, ...b }: the keys of b override those of a.
Spread(a, b) == Obj(b.f @@ a.f)


\* Decimal rendering of a natural number inside a template literal.
Digit(d) == CASE d = 0 -> "0" [] d = 1 -> "1" [] d = 2 -> "2" [] d = 3 -> "3"
              [] d = 4 -> "4" [] d = 5 -> "5" [] d = 6 -> "6" [] d = 7 -> "7"
              [] d = 8 -> "8" [] d = 9 -> "9"

RECURSIVE NumToStr(_)
NumToStr(n) == IF n < 10 THEN Digit(n) ELSE NumToStr(n \div 10) \o Digit(n % 10)

\* `${v}` for the identifiers the facade interpolates
Interp(v) == CASE v.t = "str" -> v.s
               [] v.t = "num" -> NumToStr(v.n)
               [] v.t = "undef" -> "undefined"
               [] OTHER -> "null"

-----------------------------------------------------------------------------
(* The shared client: token slot and interceptors *)

\* `Bearer ${token}`
Bearer(token) == Str("Bearer " \o Interp(token))

\* Variant: the guard on the slot is dropped.
RequestInterceptorUnguarded(headers, slot) ==
    Put(headers, "Authorization", Bearer(slot))

\* Request interceptor: the slot, when truthy, is written over the
\* Authorization header of the outgoing configuration.
RequestInterceptor(headers, slot) ==
    IF Truthy(slot) THEN Put(headers, "Authorization", Bearer(slot)) ELSE headers

\* Variant: the payload is tested for truthiness instead of !== undefined.
ResponseInterceptorTruthyData(body) ==
    IF Truthy(body) /\ TypeofObject(body)
    THEN IF Get(body, "status") = Str("success") /\ Truthy(Get(body, "data"))
         THEN Get(body, "data")
         ELSE body
    ELSE body

\* Variant: an envelope found inside the payload is unwrapped as well.
ResponseInterceptorTwice(body) ==
    LET once == IF Truthy(body) /\ TypeofObject(body)
                THEN IF Get(body, "status") = Str("success") /\ Get(body, "data") # Undef
                     THEN Get(body, "data")
                     ELSE body
                ELSE body
    IN  IF Truthy(once) /\ TypeofObject(once)
        THEN IF Get(once, "status") = Str("success") /\ Get(once, "data") # Undef
             THEN Get(once, "data")
             ELSE once
        ELSE once

\* Response interceptor, success handler: the visible body of a response.
ResponseInterceptor(body) ==
    IF Truthy(body) /\ TypeofObject(body)
    THEN IF Get(body, "status") = Str("success") /\ Get(body, "data") # Undef
         THEN Get(body, "data")
         ELSE body
    ELSE body


\* An error as the client or the facade sees it.  statusCode and errors are
\* the properties the error interceptor adds; response is present only on
\* the original axios error of an answered request.
MkError(message, code, hasResponse, status, data, statusCode, errors) ==
    [code |-> code, data |-> data, errors |-> errors,
     hasResponse |-> hasResponse, message |-> message, status |-> status,
     statusCode |-> statusCode]

\* new Error(message)
NewError(message) == MkError(message, "", FALSE, 0, Undef, Undef, Undef)

\* Variant: no default message.
TransformedMessageNoDefault(errorData) == Interp(Get(errorData, "message"))

\* message: errorData.message || 'An error occurred'
TransformedMessage(errorData) ==
    Interp(OrElse(Get(errorData, "message"), Str("An error occurred")))

\* The new error built from an upstream error envelope.
TransformedError(e) ==
    MkError(TransformedMessage(e.data), "", FALSE, 0, Undef, Num(e.status),
            OrElse(Get(e.data, "errors"), EmptyObj))

\* Variant: the default branch wraps the failure in a new error.
ErrorInterceptorWrapping(e) ==
    IF e.hasResponse /\ Truthy(e.data) /\ Get(e.data, "status") = Str("error")
    THEN TransformedError(e)
    ELSE IF e.code = "ECONNABORTED"
         THEN NewError("Request timeout - Ekasi Cart API not responding")
         ELSE IF e.code = "ERR_NETWORK"
              THEN NewError("Network error - Unable to reach Ekasi Cart API")
              ELSE NewError(e.message)

\* Response interceptor, error handler: the error the awaiting call receives.
ErrorInterceptor(e) ==
    IF e.hasResponse /\ Truthy(e.data) /\ Get(e.data, "status") = Str("error")
    THEN TransformedError(e)
    ELSE IF e.code = "ECONNABORTED"
         THEN NewError("Request timeout - Ekasi Cart API not responding")
         ELSE IF e.code = "ERR_NETWORK"
              THEN NewError("Network error - Unable to reach Ekasi Cart API")
              ELSE e

\* getAuthToken: return authToken
getAuthTokenOrNull(slot) == OrElse(slot, Null)

getAuthToken(slot) == slot

\* process.env.CELLER_HUT_API_URL || 'https://api.ekasicart.com'
BaseUrl == "https://api.ekasicart.com"

\* The health probe goes through axios itself, not through the shared
\* client: no interceptor runs and no header is set.
HealthRequest ==
    [body |-> Undef, headers |-> EmptyObj, method |-> "GET", params |-> Undef,
     slot |-> Undef, url |-> BaseUrl \o "/health"]

\* What the probe's GET can come back with: a status (axios fulfils the
\* request for 2xx and rejects it otherwise), a timeout, a network failure.
HealthStatuses == {200, 201, 204, 301, 404, 500, 503}

HealthOutcomes ==
    {[code |-> IF s < 300 THEN "" ELSE "ERR_BAD_RESPONSE",
      ok |-> (s >= 200 /\ s < 300), status |-> s] : s \in HealthStatuses}
    \cup {[code |-> c, ok |-> FALSE, status |-> 0] : c \in {"ECONNABORTED", "ERR_NETWORK"}}

\* Variant: every fulfilled probe counts as healthy.
checkCellerHutHealthAnyFulfilled(outcome) == Bool(outcome.ok)

\* checkCellerHutHealth: response.status === 200 in the try block, false
\* from the catch block.
checkCellerHutHealth(outcome) ==
    IF outcome.ok THEN Bool(outcome.status = 200) ELSE Bool(FALSE)

\* A TypeError thrown by the facade's own code (a property read of
\* undefined or null).
TypeError == NewError("Cannot read properties of undefined")

-----------------------------------------------------------------------------
(* The upstream: what one outbound request can come back with *)

\* A fulfilled request: HTTP 200 with a raw body.
Fulfilled(body) ==
    [body |-> body, error |-> MkError("", "", TRUE, 200, body, Undef, Undef),
     ok |-> TRUE]

\* A request answered with a failing status: the axios error keeps the
\* response.
HttpFailure(status, body) ==
    [body |-> body, error |-> MkError("Request failed with status code " \o NumToStr(status),
                       IF status >= 500 THEN "ERR_BAD_RESPONSE"
                                        ELSE "ERR_BAD_REQUEST",
                       TRUE, status, body, Undef, Undef),
     ok |-> FALSE]

\* A request that got no response.
Unanswered(code, message) ==
    [body |-> Undef, error |-> MkError(message, code, FALSE, 0, Undef, Undef, Undef),
     ok |-> FALSE]

TimeoutFailure == Unanswered("ECONNABORTED", "timeout of 12000ms exceeded")
NetworkFailure == Unanswered("ERR_NETWORK", "Network Error")
OtherFailure == Unanswered("ERR_CANCELED", "canceled")

\* Envelopes of the upstream commerce API.
SuccessEnvelope(d) ==
    Obj([data |-> d, message |-> Str("OK"), status |-> Str("success")])

ErrorMessages == {"Cart is empty", "Out of stock"}

ErrorEnvelopes ==
    {Obj([errors |-> Obj([items |-> Str("required")]), message |-> Str(m),
          status |-> Str("error")]) : m \in ErrorMessages}
    \cup {Obj([errors |-> EmptyObj, message |-> Str(""), status |-> Str("error")]),
          Obj([errors |-> EmptyObj, status |-> Str("error")])}

\* Failure bodies that are not error envelopes.
PlainErrorBodies ==
    {Obj([message |-> Str("Bad gateway")]),
     Obj([message |-> Str("Session expired"), status |-> Str("fail")]),
     Null,
     Str("<html>502</html>"),
     Str("")}

FailureStatuses == {404, 500}

Failures ==
    {HttpFailure(s, b) : s \in FailureStatuses, b \in ErrorEnvelopes \cup PlainErrorBodies}
    \cup {TimeoutFailure, NetworkFailure, OtherFailure}


\* Upstream orders.
OrderPlain ==
    Obj([id |-> Num(1), order_status |-> Str("pending"),
         tracking_number |-> Str("T123")])

OrderTracked ==
    Obj([delivery_service |-> Str("tookan"), id |-> Num(2),
         order_status |-> Str("processing"), tookan_job_id |-> Str("J1"),
         tracking_enabled |-> Bool(TRUE), tracking_number |-> Str("T200"),
         tracking_url |-> Str("https://track")])

OrderNoJob ==
    Obj([id |-> Num(3), order_status |-> Str("completed"),
         tracking_enabled |-> Bool(TRUE), tracking_number |-> Str("T300")])

Orders == {OrderPlain, OrderTracked, OrderNoJob}

\* The payload of a verified checkout and of a validated checkout session.
CheckoutPayload ==
    Obj([available_coupons |-> Arr(<<Str("SAVE10")>>),
         estimated_delivery |-> Str("2 days"), shipping_charge |-> Num(50),
         shipping_zone |-> Str("ZA"), total_tax |-> Num(15),
         unavailable_products |-> Arr(<<Num(7)>>)])

SessionPayload == Obj([sessionId |-> Str("S1"), validated |-> Bool(TRUE)])

\* Status snapshots of an order: complete, and without an order_status.
StatusSnapshot ==
    Obj([id |-> Num(1), order_status |-> Str("completed"),
         payment_status |-> Str("paid"), updated_at |-> Str("2024-01-01")])

StatusPaymentOnly == Obj([id |-> Num(1), payment_status |-> Str("refunded")])

\* An order that carries a job reference while tracking is switched off.
OrderJobOnly ==
    Obj([id |-> Num(4), order_status |-> Str("processing"),
         tookan_job_id |-> Str("J4"), tracking_enabled |-> Bool(FALSE),
         tracking_number |-> Str("T400")])

\* Payloads the upstream can put in a response.
Payloads ==
    Orders
    \cup {Null, Str(""), Num(0), Bool(FALSE), EmptyObj,
          Arr(<<>>), Arr(<<OrderPlain, OrderTracked>>),
          Obj([order |-> OrderPlain, payment |-> Obj([url |-> Str("https://pay")])]),
          Obj([data |-> Arr(<<OrderPlain>>), page |-> Num(1), total |-> Num(1)]),
          Obj([message |-> Str("Declined"), success |-> Bool(FALSE),
               transaction_id |-> Str("tx1")]),
          Obj([data |-> Obj([sessionId |-> Str("S1"), validated |-> Bool(TRUE)]),
               message |-> Str("Validated")]),
          CheckoutPayload, SessionPayload, StatusSnapshot, StatusPaymentOnly,
          OrderJobOnly}

\* Raw bodies of a fulfilled request: a payload in the success envelope, a
\* bare payload, and near-envelopes.
SuccessBodies ==
    Payloads
    \cup {SuccessEnvelope(d) : d \in Payloads}
    \cup {Obj([message |-> Str("OK"), status |-> Str("success")]),
          Obj([data |-> OrderPlain, status |-> Str("fail")]),
          SuccessEnvelope(SuccessEnvelope(OrderPlain))}

Outcomes == {Fulfilled(b) : b \in SuccessBodies} \cup Failures

-----------------------------------------------------------------------------
(* The transformer pair (src/common/data-transformer), an external          *)
(* collaborator of the facade: total, and opaque to this model.             *)

transformCellerHutOrder(o) == Obj([storefront_order |-> o])

transformOrderForCellerHut(dto) == Obj([upstream_order |-> dto])

transformPagination(d) ==
    Obj([current_page |-> IF Nullish(d) THEN Undef ELSE Get(d, "page"),
         total |-> IF Nullish(d) THEN Undef ELSE Get(d, "total")])

\* OrderStatusType.PENDING, PaymentStatusType.PENDING
OrderStatusPending == Str("pending")
PaymentStatusPending == Str("pending")


-----------------------------------------------------------------------------
(* The order facade: what each operation does with the visible body of a   *)
(* fulfilled request (the rest of its try block) and with an error (its    *)
(* catch block).                                                           *)

Ret(v) == [kind |-> "return", message |-> "", value |-> v]
Raise(m) == [kind |-> "raise", message |-> m, value |-> Undef]
\* the try block threw a TypeError of its own
Threw == [kind |-> "threw", message |-> "", value |-> Undef]
NoResult == [kind |-> "none", message |-> "", value |-> Undef]

\* const headers = token ? { Authorization: `Bearer ${token}` } : {}
TokenHeaders(token) ==
    IF Truthy(token) THEN Obj([Authorization |-> Bearer(token)]) ELSE EmptyObj

\* response.data.map(transformCellerHutOrder)
MapOrders(data) ==
    Arr([i \in DOMAIN data.a |-> transformCellerHutOrder(data.a[i])])

\* Variant: a non-array body is searched for a nested data list.
TransformedDataNested(data) ==
    IF data.t = "arr" THEN MapOrders(data)
    ELSE IF Nullish(data) THEN Arr(<<>>)
         ELSE OrElse(Get(data, "data"), Arr(<<>>))

\* Array.isArray(response.data) ? response.data.map(transformCellerHutOrder) : []
TransformedData(data) ==
    IF data.t = "arr" THEN MapOrders(data) ELSE Arr(<<>>)

\* { data: transformedData, ...pagination }
Paginator(data) ==
    Spread(Obj([data |-> TransformedData(data)]), transformPagination(data))

\* Variant: the payment of the response is dropped.
createWithoutPayment(c, data) ==
    IF Nullish(data) THEN Threw
    ELSE Ret(transformCellerHutOrder(OrElse(Get(data, "order"), data)))

create(c, data) ==
    IF Nullish(data) THEN Threw
    ELSE LET orderData == OrElse(Get(data, "order"), data)
             paymentData == OrElse(Get(data, "payment"), Null)
             transformedOrder == transformCellerHutOrder(orderData)
         IN  Ret(IF Truthy(paymentData)
                 THEN Put(transformedOrder, "payment", paymentData)
                 ELSE transformedOrder)

createCatch(c, error) == Raise("Failed to create order in Ekasi Cart API")

getOrders(c, data) == Ret(Paginator(data))

\* Variant: the failure is swallowed and an empty page returned.
getOrdersCatchSwallowing(c, error) == Ret(Obj([data |-> Arr(<<>>)]))

getOrdersCatch(c, error) == Raise("Failed to fetch orders from Ekasi Cart API")

\* Variant: the job reference is not asked for.
TrackingQualifiesWithoutJob(orderData) == Truthy(Get(orderData, "tracking_enabled"))

\* orderData.tracking_enabled && orderData.tookan_job_id
TrackingQualifies(orderData) ==
    Truthy(Get(orderData, "tracking_enabled")) /\ Truthy(Get(orderData, "tookan_job_id"))

GpsTracking(orderData) ==
    Obj([deliveryService |-> Get(orderData, "delivery_service"),
         orderId |-> Get(orderData, "id"),
         orderNumber |-> Get(orderData, "tracking_number"),
         orderStatus |-> Get(orderData, "order_status"),
         trackingEnabled |-> Get(orderData, "tracking_enabled"),
         trackingUrl |-> Get(orderData, "tracking_url")])

getOrderByIdOrTrackingNumber(c, data) ==
    LET transformedOrder == transformCellerHutOrder(data)
    IN  IF Nullish(data) THEN Threw
        ELSE IF TrackingQualifies(data)
             THEN Ret(Put(transformedOrder, "gps_tracking", GpsTracking(data)))
             ELSE Ret(transformedOrder)

\* Variant: the outer catch forwards the message of the error it caught.
getOrderByIdOrTrackingNumberCatchForwarding(c, error) == Raise(error.message)

getOrderByIdOrTrackingNumberCatch(c, error) ==
    Raise("Order with ID/tracking \"" \o Interp(c.id) \o "\" not found")

update(c, data) == Ret(transformCellerHutOrder(data))

\* Variant: the caught error's message is forwarded.
updateCatchForwarding(c, error) == Raise(error.message)

updateCatch(c, error) ==
    Raise("Failed to update order " \o Interp(c.id) \o " in Ekasi Cart API")

cancel(c, data) == Ret(transformCellerHutOrder(data))

cancelCatch(c, error) ==
    Raise("Failed to cancel order " \o Interp(c.id) \o " in Ekasi Cart API")

\* Variant: a missing payment_status follows the order_status.
getOrderStatusCoupled(c, data) ==
    IF Nullish(data) THEN Threw
    ELSE Ret(Obj([id |-> Get(data, "id"),
                  order_status |-> OrElse(Get(data, "order_status"), OrderStatusPending),
                  payment_status |-> OrElse(Get(data, "payment_status"),
                                            OrElse(Get(data, "order_status"),
                                                   PaymentStatusPending)),
                  updated_at |-> Get(data, "updated_at")]))

getOrderStatus(c, data) ==
    IF Nullish(data) THEN Threw
    ELSE Ret(Obj([id |-> Get(data, "id"),
                  order_status |-> OrElse(Get(data, "order_status"), OrderStatusPending),
                  payment_status |-> OrElse(Get(data, "payment_status"), PaymentStatusPending),
                  updated_at |-> Get(data, "updated_at")]))

getOrderStatusCatch(c, error) ==
    Raise("Failed to get status for order " \o Interp(c.id))

\* Variant: the response body is returned as it came.
updateOrderStatusUntransformed(c, data) == Ret(data)

updateOrderStatus(c, data) == Ret(transformCellerHutOrder(data))

updateOrderStatusCatch(c, error) ==
    Raise("Failed to update status for order " \o Interp(c.id))

updatePaymentStatus(c, data) == Ret(transformCellerHutOrder(data))

updatePaymentStatusCatch(c, error) ==
    Raise("Failed to update payment status for order " \o Interp(c.id))

getOrdersByCustomer(c, data) == Ret(Paginator(data))

getOrdersByCustomerCatch(c, error) ==
    Raise("Failed to fetch orders for customer " \o Interp(c.id))

getOrdersByShop(c, data) == Ret(Paginator(data))

getOrdersByShopCatch(c, error) ==
    Raise("Failed to fetch orders for shop " \o Interp(c.id))


processPayment(c, data) ==
    IF Nullish(data) THEN Threw
    ELSE Ret(Obj([message |-> OrElse(Get(data, "message"),
                                     Str("Payment processed successfully")),
                  payment_intent |-> Get(data, "payment_intent"),
                  success |-> OrElse(Get(data, "success"), Bool(TRUE)),
                  transaction_id |-> Get(data, "transaction_id")]))

processPaymentCatch(c, error) ==
    Raise("Failed to process payment for order " \o Interp(c.id))

getOrderInvoice(c, data) ==
    IF Nullish(data) THEN Threw
    ELSE Ret(Obj([generated_at |-> Get(data, "generated_at"),
                  invoice_number |-> Get(data, "invoice_number"),
                  invoice_url |-> Get(data, "invoice_url")]))

getOrderInvoiceCatch(c, error) ==
    Raise("Failed to get invoice for order " \o Interp(c.id))

getOrderTracking(c, data) ==
    IF Nullish(data) THEN Threw
    ELSE Ret(Obj([carrier |-> Get(data, "carrier"),
                  estimated_delivery |-> Get(data, "estimated_delivery"),
                  status |-> Get(data, "status"),
                  tracking_events |-> OrElse(Get(data, "tracking_events"), Arr(<<>>)),
                  tracking_number |-> Get(data, "tracking_number")]))

getOrderTrackingCatch(c, error) ==
    Raise("Failed to get tracking for order " \o Interp(c.id))

verifyCheckout(c, data) ==
    IF Nullish(data) \/ Nullish(Get(data, "data")) THEN Threw
    ELSE LET d == Get(data, "data")
         IN  Ret(Obj([available_coupons |-> OrElse(Get(d, "available_coupons"), Arr(<<>>)),
                      estimated_delivery |-> OrElse(Get(d, "estimated_delivery"), Str("")),
                      shipping_charge |-> OrElse(Get(d, "shipping_charge"), Num(0)),
                      shipping_zone |-> OrElse(Get(d, "shipping_zone"), Str("")),
                      total_tax |-> OrElse(Get(d, "total_tax"), Num(0)),
                      unavailable_products |-> OrElse(Get(d, "unavailable_products"), Arr(<<>>))]))

verifyCheckoutCatch(c, error) == Raise("Failed to verify checkout data")

ZeroAnalytics ==
    Obj([average_order_value |-> Num(0), cancelled_orders |-> Num(0),
         completed_orders |-> Num(0), pending_orders |-> Num(0),
         total_orders |-> Num(0), total_revenue |-> Num(0)])

getOrderAnalytics(c, data) ==
    IF Nullish(data) THEN Threw
    ELSE Ret(Obj([average_order_value |-> OrElse(Get(data, "average_order_value"), Num(0)),
                  cancelled_orders |-> OrElse(Get(data, "cancelled_orders"), Num(0)),
                  completed_orders |-> OrElse(Get(data, "completed_orders"), Num(0)),
                  pending_orders |-> OrElse(Get(data, "pending_orders"), Num(0)),
                  total_orders |-> OrElse(Get(data, "total_orders"), Num(0)),
                  total_revenue |-> OrElse(Get(data, "total_revenue"), Num(0))]))

\* Variant: the catch block raises like its siblings.
getOrderAnalyticsCatchRaising(c, error) == Raise("Failed to get order analytics")

getOrderAnalyticsCatch(c, error) == Ret(ZeroAnalytics)

\* Variant: without a response the message of the caught error is forwarded.
ForwardOrFixedForwarding(error, withResponse, withoutResponse) ==
    IF error.hasResponse
    THEN IF Nullish(error.data)
         THEN Raise(TypeError.message)
         ELSE Raise(Interp(OrElse(Get(error.data, "message"), Str(withResponse))))
    ELSE Raise(error.message)

\* The catch block of the two payment-first calls: the upstream message is
\* read from error.response, a fixed message is raised without one.  Reading
\* error.response.data.message throws when the response has no body object.
ForwardOrFixed(error, withResponse, withoutResponse) ==
    IF error.hasResponse
    THEN IF Nullish(error.data)
         THEN Raise(TypeError.message)
         ELSE Raise(Interp(OrElse(Get(error.data, "message"), Str(withResponse))))
    ELSE Raise(withoutResponse)

validateCheckoutForPayment(c, data) ==
    IF Nullish(data) \/ Nullish(Get(data, "data")) THEN Threw
    ELSE Ret(Obj([message |-> Get(data, "message"),
                  sessionId |-> Get(Get(data, "data"), "sessionId"),
                  validated |-> Get(Get(data, "data"), "validated")]))

validateCheckoutForPaymentCatch(c, error) ==
    ForwardOrFixed(error, "Failed to validate checkout",
                   "Failed to validate checkout for payment")

initiatePaymentFirst(c, data) ==
    IF Nullish(data) THEN Threw
    ELSE Ret(Obj([checkoutId |-> Get(data, "checkoutId"),
                  message |-> Get(data, "message"),
                  paymentUrl |-> Get(data, "paymentUrl"),
                  status |-> Get(data, "status"),
                  transactionId |-> Get(data, "transactionId")]))

initiatePaymentFirstCatch(c, error) ==
    ForwardOrFixed(error, "Failed to initiate payment", "Failed to initiate payment")

getCheckoutSession(c, data) ==
    IF Nullish(data) THEN Threw ELSE Ret(Get(data, "data"))

getCheckoutSessionCatch(c, error) == Raise("Failed to get checkout session")

verifyPaymentForOrder(c, data) == Ret(data)

verifyPaymentForOrderCatch(c, error) == Raise("Failed to verify payment for order")


-----------------------------------------------------------------------------
(* Outbound requests *)

MaxId == 2
MaxParse == 50

\* Number(v) for the query values the facade converts
Number(v) ==
    IF v.t = "num" THEN v
    ELSE IF v.t = "str" /\ \E n \in 0..MaxParse : NumToStr(n) = v.s
         THEN Num(CHOOSE n \in 0..MaxParse : NumToStr(n) = v.s)
         ELSE [t |-> "nan"]

Request(method, url, headers, body, params) ==
    [body |-> body, headers |-> headers, method |-> method, params |-> params,
     url |-> url]

\* params of getOrders
GetOrdersParams(dto) ==
    LET p0 == Obj([limit |-> OrElse(Get(dto, "limit"), Num(15)),
                   page |-> OrElse(Get(dto, "page"), Num(1))])
        p1 == IF Truthy(Get(dto, "customer_id"))
              THEN Put(p0, "customer_id", Get(dto, "customer_id")) ELSE p0
        p2 == IF Truthy(Get(dto, "tracking_number"))
              THEN Put(p1, "tracking_number", Get(dto, "tracking_number")) ELSE p1
        p3 == IF Truthy(Get(dto, "shop_id")) /\ Get(dto, "shop_id") # Str("undefined")
              THEN Put(p2, "shop_id", Number(Get(dto, "shop_id"))) ELSE p2
    IN  IF Truthy(Get(dto, "search")) THEN Put(p3, "search", Get(dto, "search")) ELSE p3

\* params of getOrdersByCustomer / getOrdersByShop
FilteredParams(key, id, options) ==
    Spread(Obj((key :> id) @@ [limit |-> OrElse(Get(options, "limit"), Num(15)),
                               page |-> OrElse(Get(options, "page"), Num(1))]),
           options)

\* params of getOrderAnalytics
AnalyticsParams(shopId) ==
    IF Truthy(shopId) THEN Obj([shop_id |-> shopId]) ELSE EmptyObj

\* Variant: the inner catch asks the by-ID path again.
LookupUrlSamePath(id, n) == "/ecommerce/orders/" \o Interp(id)

\* getOrderByIdOrTrackingNumber: the by-ID path first, the tracking path
\* from the inner catch.
LookupUrl(id, n) ==
    IF n = 1 THEN "/ecommerce/orders/" \o Interp(id)
             ELSE "/ecommerce/orders/tracking/" \o Interp(id)

\* The n-th request an operation hands to the shared client.
FacadeRequest(c, n) ==
    CASE c.op = "create" ->
           Request("POST", "/ecommerce/orders", TokenHeaders(c.token),
                   transformOrderForCellerHut(c.arg), Undef)
      [] c.op = "getOrders" ->
           Request("GET", "/ecommerce/orders", TokenHeaders(c.token), Undef,
                   GetOrdersParams(c.arg))
      [] c.op = "getOrderByIdOrTrackingNumber" ->
           Request("GET", LookupUrl(c.id, n), TokenHeaders(c.token), Undef, Undef)
      [] c.op = "update" ->
           Request("PUT", "/orders/" \o Interp(c.id), EmptyObj,
                   transformOrderForCellerHut(c.arg), Undef)
      [] c.op = "cancel" ->
           Request("POST", "/orders/" \o Interp(c.id) \o "/cancel", EmptyObj, Undef, Undef)
      [] c.op = "getOrderStatus" ->
           Request("GET", "/orders/" \o Interp(c.id) \o "/status", EmptyObj, Undef, Undef)
      [] c.op = "updateOrderStatus" ->
           Request("PUT", "/orders/" \o Interp(c.id) \o "/status", EmptyObj,
                   Obj([order_status |-> c.arg]), Undef)
      [] c.op = "updatePaymentStatus" ->
           Request("PUT", "/orders/" \o Interp(c.id) \o "/payment-status", EmptyObj,
                   Obj([payment_status |-> c.arg]), Undef)
      [] c.op = "getOrdersByCustomer" ->
           Request("GET", "/orders", EmptyObj, Undef,
                   FilteredParams("customer_id", c.id, c.arg))
      [] c.op = "getOrdersByShop" ->
           Request("GET", "/orders", EmptyObj, Undef,
                   FilteredParams("shop_id", c.id, c.arg))
      [] c.op = "processPayment" ->
           Request("POST", "/orders/" \o Interp(c.id) \o "/payment", EmptyObj, c.arg, Undef)
      [] c.op = "getOrderInvoice" ->
           Request("GET", "/orders/" \o Interp(c.id) \o "/invoice", EmptyObj, Undef, Undef)
      [] c.op = "getOrderTracking" ->
           Request("GET", "/orders/tracking/" \o Interp(c.id), EmptyObj, Undef, Undef)
      [] c.op = "verifyCheckout" ->
           Request("POST", "/ecommerce/orders/verify-checkout", TokenHeaders(c.token),
                   c.arg, Undef)
      [] c.op = "getOrderAnalytics" ->
           Request("GET", "/orders/analytics", EmptyObj, Undef, AnalyticsParams(c.id))
      [] c.op = "validateCheckoutForPayment" ->
           Request("POST", "/ecommerce/checkout/validate", TokenHeaders(c.token),
                   c.arg, Undef)
      [] c.op = "initiatePaymentFirst" ->
           Request("POST", "/ecommerce/payments/initiate-payment-first",
                   TokenHeaders(c.token), c.arg, Undef)
      [] c.op = "getCheckoutSession" ->
           Request("GET", "/ecommerce/checkout/session/" \o Interp(c.id),
                   TokenHeaders(c.token), Undef, Undef)
      [] c.op = "verifyPaymentForOrder" ->
           Request("POST", "/ecommerce/payments/verify-for-order",
                   TokenHeaders(c.token), c.arg, Undef)

\* The request as it leaves the client: the facade's configuration after the
\* request interceptor has run against the slot.  slot records the value of
\* the slot the interceptor saw.
Outgoing(c, n, slot) ==
    LET r == FacadeRequest(c, n)
    IN  [body |-> r.body, headers |-> RequestInterceptor(r.headers, slot),
         method |-> r.method, params |-> r.params, slot |-> slot, url |-> r.url]

\* The rest of the try block after a fulfilled request.
Try(c, data) ==
    CASE c.op = "create" -> create(c, data)
      [] c.op = "getOrders" -> getOrders(c, data)
      [] c.op = "getOrderByIdOrTrackingNumber" -> getOrderByIdOrTrackingNumber(c, data)
      [] c.op = "update" -> update(c, data)
      [] c.op = "cancel" -> cancel(c, data)
      [] c.op = "getOrderStatus" -> getOrderStatus(c, data)
      [] c.op = "updateOrderStatus" -> updateOrderStatus(c, data)
      [] c.op = "updatePaymentStatus" -> updatePaymentStatus(c, data)
      [] c.op = "getOrdersByCustomer" -> getOrdersByCustomer(c, data)
      [] c.op = "getOrdersByShop" -> getOrdersByShop(c, data)
      [] c.op = "processPayment" -> processPayment(c, data)
      [] c.op = "getOrderInvoice" -> getOrderInvoice(c, data)
      [] c.op = "getOrderTracking" -> getOrderTracking(c, data)
      [] c.op = "verifyCheckout" -> verifyCheckout(c, data)
      [] c.op = "getOrderAnalytics" -> getOrderAnalytics(c, data)
      [] c.op = "validateCheckoutForPayment" -> validateCheckoutForPayment(c, data)
      [] c.op = "initiatePaymentFirst" -> initiatePaymentFirst(c, data)
      [] c.op = "getCheckoutSession" -> getCheckoutSession(c, data)
      [] c.op = "verifyPaymentForOrder" -> verifyPaymentForOrder(c, data)

\* The catch block.
Catch(c, error) ==
    CASE c.op = "create" -> createCatch(c, error)
      [] c.op = "getOrders" -> getOrdersCatch(c, error)
      [] c.op = "getOrderByIdOrTrackingNumber" -> getOrderByIdOrTrackingNumberCatch(c, error)
      [] c.op = "update" -> updateCatch(c, error)
      [] c.op = "cancel" -> cancelCatch(c, error)
      [] c.op = "getOrderStatus" -> getOrderStatusCatch(c, error)
      [] c.op = "updateOrderStatus" -> updateOrderStatusCatch(c, error)
      [] c.op = "updatePaymentStatus" -> updatePaymentStatusCatch(c, error)
      [] c.op = "getOrdersByCustomer" -> getOrdersByCustomerCatch(c, error)
      [] c.op = "getOrdersByShop" -> getOrdersByShopCatch(c, error)
      [] c.op = "processPayment" -> processPaymentCatch(c, error)
      [] c.op = "getOrderInvoice" -> getOrderInvoiceCatch(c, error)
      [] c.op = "getOrderTracking" -> getOrderTrackingCatch(c, error)
      [] c.op = "verifyCheckout" -> verifyCheckoutCatch(c, error)
      [] c.op = "getOrderAnalytics" -> getOrderAnalyticsCatch(c, error)
      [] c.op = "validateCheckoutForPayment" -> validateCheckoutForPaymentCatch(c, error)
      [] c.op = "initiatePaymentFirst" -> initiatePaymentFirstCatch(c, error)
      [] c.op = "getCheckoutSession" -> getCheckoutSessionCatch(c, error)
      [] c.op = "verifyPaymentForOrder" -> verifyPaymentForOrderCatch(c, error)

\* What the awaiting call receives for an upstream outcome: the visible body
\* of a fulfilled request, or the error after the error interceptor.
Received(outcome) ==
    [data |-> IF outcome.ok THEN ResponseInterceptor(outcome.body) ELSE Undef, error |-> IF outcome.ok THEN outcome.error ELSE ErrorInterceptor(outcome.error),
     ok |-> outcome.ok,
     raw |-> outcome.body,
     rawError |-> outcome.error]

\* Variant: the slot decides whether an answer is used.
CompletionBySlot(c, rcv) ==
    IF ~Truthy(authToken) THEN Raise("No session")
    ELSE IF rcv.ok
         THEN LET r == Try(c, rcv.data)
              IN  IF r.kind = "threw" THEN Catch(c, TypeError) ELSE r
         ELSE Catch(c, rcv.error)

\* How the operation ends once its last request has settled.
Completion(c, rcv) ==
    IF rcv.ok
    THEN LET r == Try(c, rcv.data)
         IN  IF r.kind = "threw" THEN Catch(c, TypeError) ELSE r
    ELSE Catch(c, rcv.error)


-----------------------------------------------------------------------------
(* Inputs *)

\* token?: string of a facade call; the values of the process-wide slot
CallTokens == {Undef, Str(""), Str("T")}
SlotTokens == {Null, Str(""), Str("T"), Str("G")}

NumIds == {Num(21 * i) : i \in 1..MaxId}
StrIds == {Str("T123"), Str("42")}

Draft == Obj([customer |-> Obj([id |-> Num(5)]), items |-> Arr(<<Num(1)>>)])
OrderFilters == {EmptyObj, Obj([customer_id |-> Num(5), page |-> Num(2), shop_id |-> Str("7")])}
OrderStatuses == {Str("completed"), Str("cancelled")}
PaymentStatuses == {Str("paid"), Str("failed")}
OptionBags == {EmptyObj, Obj([page |-> Num(2)]),
               Obj([customer_id |-> Num(9), shop_id |-> Num(9)])}
PaymentData == Obj([amount |-> Num(100)])
CheckoutRef == Obj([checkoutId |-> Str("C1")])

Call(op, id, token, arg) == [arg |-> arg, id |-> id, op |-> op, token |-> token]

NoCall == Call("", Undef, Undef, Undef)
NoMemo == [error |-> NewError(""), id |-> Undef, message |-> "", op |-> ""]

\* Two concurrent callers of the shared client, each with a token of its
\* own, and the requests they issue.
Callers == {1, 2}
CallerToken(k) == IF k = 1 THEN Str("T") ELSE Str("G")
RaceCalls ==
    {Call(op, id, Undef, Undef) :
        op \in {"cancel", "getOrderStatus", "getOrderInvoice"}, id \in NumIds}

NoRequest == [body |-> Undef, headers |-> EmptyObj, method |-> "", params |-> Undef,
              slot |-> Undef, url |-> ""]

\* last: the caller whose setAuthToken ran last (0: none); per caller, its
\* position, its request in flight, and the value of last when that request
\* passed the request interceptor.
NoRace ==
    [last |-> 0, pos |-> [k \in Callers |-> "start"],
     req |-> [k \in Callers |-> NoRequest], seen |-> [k \in Callers |-> 0]]

\* An earlier call kept by an observer: its arguments, what the upstream
\* answered and what the call ended with.
NoEarlier == [args |-> NoCall, outcome |-> NoResult, responses |-> <<>>]

\* The exported functions of the client module next to the shared client:
\* getAuthToken and the health probe.  arg is the argument of the most
\* recent setAuthToken, got what getAuthToken returned since then, probe the
\* health check in progress.
NotAsked == [t |-> "unasked"]
NoOutcome == [code |-> "", ok |-> FALSE, status |-> 0]
NoProbe == [answer |-> Undef, outcome |-> NoOutcome, pos |-> "idle", req |-> NoRequest]
NoClient == [arg |-> Null, got |-> NotAsked, probe |-> NoProbe]

-----------------------------------------------------------------------------
(* State machine *)

Init ==
    /\ authToken = Null
    /\ pc = "idle"
    /\ call = NoCall
    /\ sent = <<>>
    /\ received = <<>>
    /\ result = NoResult
    /\ memo = NoMemo
    /\ race = NoRace
    /\ earlier = NoEarlier
    /\ client = NoClient
    /\ flow = {}

\* setAuthToken(token), called by any code of the process while no facade
\* code is running (before a call, or while one is suspended at its await).
setAuthToken ==
    \E token \in SlotTokens :
        /\ pc \in {"idle", "await"}
        /\ authToken' = token
        /\ UNCHANGED <<pc, call, sent, received, result, memo, race, earlier, client, flow>>

\* Variant: the operation stores its per-call token in the slot.
InvokeStoringToken(c) ==
    /\ pc = "idle"
    /\ call' = c
    /\ authToken' = IF Truthy(c.token) THEN c.token ELSE authToken
    /\ sent' = <<Outgoing(c, 1, authToken')>>
    /\ received' = <<>>
    /\ result' = NoResult
    /\ pc' = "await"
    /\ UNCHANGED <<memo, race, earlier, client, flow>>

\* A facade operation is called: it runs up to its first await, where its
\* request has passed the request interceptor and left the client.
Invoke(c) ==
    /\ pc = "idle"
    /\ call' = c
    /\ sent' = <<Outgoing(c, 1, authToken)>>
    /\ received' = <<>>
    /\ result' = NoResult
    /\ pc' = "await"
    /\ UNCHANGED <<authToken, memo, race, earlier, client, flow>>

Create == \E tk \in CallTokens : Invoke(Call("create", Undef, tk, Draft))
GetOrders == \E tk \in CallTokens, f \in OrderFilters : Invoke(Call("getOrders", Undef, tk, f))
GetOrderByIdOrTrackingNumber ==
    \E tk \in CallTokens, id \in StrIds :
        Invoke(Call("getOrderByIdOrTrackingNumber", id, tk, Undef))
Update == \E id \in NumIds : Invoke(Call("update", id, Undef, Draft))
Cancel == \E id \in NumIds : Invoke(Call("cancel", id, Undef, Undef))
GetOrderStatus == \E id \in NumIds : Invoke(Call("getOrderStatus", id, Undef, Undef))
UpdateOrderStatus ==
    \E id \in NumIds, st \in OrderStatuses : Invoke(Call("updateOrderStatus", id, Undef, st))
UpdatePaymentStatus ==
    \E id \in NumIds, st \in PaymentStatuses : Invoke(Call("updatePaymentStatus", id, Undef, st))
GetOrdersByCustomer ==
    \E id \in NumIds, o \in OptionBags : Invoke(Call("getOrdersByCustomer", id, Undef, o))
GetOrdersByShop ==
    \E id \in NumIds, o \in OptionBags : Invoke(Call("getOrdersByShop", id, Undef, o))
ProcessPayment == \E id \in NumIds : Invoke(Call("processPayment", id, Undef, PaymentData))
GetOrderInvoice == \E id \in NumIds : Invoke(Call("getOrderInvoice", id, Undef, Undef))
GetOrderTracking == \E id \in StrIds : Invoke(Call("getOrderTracking", id, Undef, Undef))
VerifyCheckout == \E tk \in CallTokens : Invoke(Call("verifyCheckout", Undef, tk, Draft))
GetOrderAnalytics ==
    \E id \in NumIds \cup {Undef} : Invoke(Call("getOrderAnalytics", id, Undef, Undef))
ValidateCheckoutForPayment ==
    \E tk \in CallTokens : Invoke(Call("validateCheckoutForPayment", Undef, tk, Draft))
InitiatePaymentFirst ==
    \E tk \in CallTokens : Invoke(Call("initiatePaymentFirst", Undef, tk, PaymentData))
GetCheckoutSession ==
    \E tk \in CallTokens, id \in StrIds : Invoke(Call("getCheckoutSession", id, tk, Undef))
VerifyPaymentForOrder ==
    \E tk \in CallTokens : Invoke(Call("verifyPaymentForOrder", Undef, tk, CheckoutRef))

\* Variant: every operation asks once more after a failure.
HasFallbackAnyOperation(c, n) == n = 1

\* Variant: a failed step of the payment-first flow is followed by a further
\* request of the same invocation.
HasFallbackPaymentFirst(c, n) ==
    /\ n = 1
    /\ c.op \in {"getOrderByIdOrTrackingNumber", "validateCheckoutForPayment",
                 "initiatePaymentFirst", "verifyPaymentForOrder"}

\* getOrderByIdOrTrackingNumber catches the failure of its by-ID request and
\* sends the tracking request.
HasFallback(c, n) == c.op = "getOrderByIdOrTrackingNumber" /\ n = 1

\* The pending request is fulfilled: the operation resumes and finishes.
RequestFulfilled ==
    /\ pc = "await"
    /\ \E o \in Outcomes :
        /\ o.ok
        /\ received' = Append(received, Received(o))
        /\ result' = Completion(call, Received(o))
    /\ pc' = "done"
    /\ UNCHANGED <<authToken, call, sent, memo, race, earlier, client, flow>>

\* The pending request fails and the operation has no further request.
RequestRejected ==
    /\ pc = "await"
    /\ ~HasFallback(call, Len(sent))
    /\ \E o \in Outcomes :
        /\ ~o.ok
        /\ received' = Append(received, Received(o))
        /\ result' = Completion(call, Received(o))
    /\ pc' = "done"
    /\ UNCHANGED <<authToken, call, sent, memo, race, earlier, client, flow>>

\* Variant: the lookup asks again after every failure, the tracking request
\* included.
FallbackToTrackingRetrying ==
    /\ pc = "await"
    /\ call.op = "getOrderByIdOrTrackingNumber"
    /\ \E o \in Outcomes :
        /\ ~o.ok
        /\ received' = <<Received(o)>>
    /\ sent' = <<Outgoing(call, 1, authToken), Outgoing(call, 2, authToken)>>
    /\ UNCHANGED <<authToken, pc, call, result, memo, race, earlier, client, flow>>

\* The by-ID request fails: the inner catch sends the tracking request.
FallbackToTracking ==
    /\ pc = "await"
    /\ HasFallback(call, Len(sent))
    /\ \E o \in Outcomes :
        /\ ~o.ok
        /\ received' = Append(received, Received(o))
    /\ sent' = Append(sent, Outgoing(call, 2, authToken))
    /\ UNCHANGED <<authToken, pc, call, result, memo, race, earlier, client, flow>>

\* The caller takes the returned value or the raised error; nothing of the
\* call is kept.
Return ==
    /\ pc = "done"
    /\ pc' = "idle"
    /\ call' = NoCall
    /\ sent' = <<>>
    /\ received' = <<>>
    /\ result' = NoResult
    /\ UNCHANGED <<authToken, memo, race, earlier, client, flow>>

FacadeCall ==
    \/ Create \/ GetOrders \/ GetOrderByIdOrTrackingNumber \/ Update \/ Cancel
    \/ GetOrderStatus \/ UpdateOrderStatus \/ UpdatePaymentStatus
    \/ GetOrdersByCustomer \/ GetOrdersByShop \/ ProcessPayment
    \/ GetOrderInvoice \/ GetOrderTracking \/ VerifyCheckout
    \/ GetOrderAnalytics \/ ValidateCheckoutForPayment \/ InitiatePaymentFirst
    \/ GetCheckoutSession \/ VerifyPaymentForOrder

Next ==
    \/ setAuthToken
    \/ FacadeCall
    \/ RequestFulfilled
    \/ RequestRejected
    \/ FallbackToTracking
    \/ Return

Spec == Init /\ [][Next]_vars

\* Two runs of the same call, compared: an observer keeps the error of one
\* failed run (Remember) and the same operation is then called again with
\* the same identifier.
Remember ==
    /\ pc = "done"
    /\ result.kind = "raise"
    /\ memo = NoMemo
    /\ memo' = [error |-> received[Len(received)].rawError, id |-> call.id, message |-> result.message,
                op |-> call.op]
    /\ UNCHANGED <<authToken, pc, call, sent, received, result, race, earlier, client, flow>>

SameCallAgain ==
    /\ FacadeCall
    /\ memo # NoMemo => (call'.op = memo.op /\ call'.id = memo.id)

NextPair ==
    \/ SameCallAgain
    \/ RequestFulfilled
    \/ RequestRejected
    \/ FallbackToTracking
    \/ Return
    \/ Remember

SpecPair == Init /\ [][NextPair]_vars


\* Variant: every caller has a slot of its own.
SlotReadOwn(own, slot) == own

\* The slot as the request interceptor reads it for a caller's request: the
\* one module-level variable, whoever wrote it.
SlotRead(own, slot) == slot

\* Two callers sharing the client.  Each runs setAuthToken(own token) and
\* then issues a request; the request interceptor runs in the promise chain
\* of the request, after the code that called setAuthToken has yielded, so
\* steps of the other caller can come in between.
CallerSetsToken(k) ==
    /\ race.pos[k] = "start"
    /\ authToken' = CallerToken(k)
    /\ race' = [race EXCEPT !.last = k, !.pos[k] = "set"]
    /\ UNCHANGED <<pc, call, sent, received, result, memo, earlier, client, flow>>

\* The caller's request passes the request interceptor and leaves the client.
CallerSends(k) ==
    /\ race.pos[k] = "set"
    /\ \E c \in RaceCalls :
          race' = [race EXCEPT !.pos[k] = "await",
                               !.req[k] = Outgoing(c, 1, SlotRead(CallerToken(k), authToken)),
                               !.seen[k] = race.last]
    /\ UNCHANGED <<authToken, pc, call, sent, received, result, memo, earlier, client, flow>>

\* The caller's request settles.
CallerReceives(k) ==
    /\ race.pos[k] = "await"
    /\ race' = [race EXCEPT !.pos[k] = "start", !.req[k] = NoRequest, !.seen[k] = 0]
    /\ UNCHANGED <<authToken, pc, call, sent, received, result, memo, earlier, client, flow>>

NextRace ==
    \E k \in Callers : CallerSetsToken(k) \/ CallerSends(k) \/ CallerReceives(k)

SpecRace == Init /\ [][NextRace]_vars

\* What the upstream answered to the requests of a call.
Upstream(rcv) ==
    [i \in DOMAIN rcv |->
        [ok |-> rcv[i].ok, raw |-> rcv[i].raw, rawError |-> rcv[i].rawError]]

\* The answers of the calls an observer keeps: an order, an order list or a
\* checkout session, bare or in the success envelope, and a network failure.
EntityBodies ==
    LET bare == Orders \cup {Arr(<<OrderPlain, OrderTracked>>),
                             Obj([data |-> Obj([sessionId |-> Str("S1"),
                                                validated |-> Bool(TRUE)]),
                                  message |-> Str("Validated")])}
    IN  bare \cup {SuccessEnvelope(b) : b \in bare}

KeptAnswer(r) ==
    IF r.ok THEN r.raw \in EntityBodies ELSE r.rawError = NetworkFailure.error

\* Two calls with the same arguments, compared: an observer keeps one
\* finished call (RememberCall); the slot may be set between calls and the
\* same call is made again.
RememberCall ==
    /\ pc = "done"
    /\ earlier = NoEarlier
    /\ \A i \in DOMAIN received : KeptAnswer(received[i])
    /\ earlier' = [args |-> call, outcome |-> result, responses |-> Upstream(received)]
    /\ UNCHANGED <<authToken, pc, call, sent, received, result, memo, race, client, flow>>

SameArgumentsAgain ==
    /\ FacadeCall
    /\ earlier # NoEarlier => call' = earlier.args

setAuthTokenBetweenCalls == setAuthToken /\ pc = "idle"

NextHistory ==
    \/ setAuthTokenBetweenCalls
    \/ SameArgumentsAgain
    \/ RequestFulfilled
    \/ RequestRejected
    \/ FallbackToTracking
    \/ Return
    \/ RememberCall

SpecHistory == Init /\ [][NextHistory]_vars

\* The exported functions of the client module, next to a facade operation
\* that sends requests through the shared client.
setAuthTokenNoted ==
    \E token \in SlotTokens :
        /\ pc \in {"idle", "await"}
        /\ authToken' = token
        /\ client' = [client EXCEPT !.arg = token, !.got = NotAsked]
        /\ UNCHANGED <<pc, call, sent, received, result, memo, race, earlier, flow>>

getAuthTokenCalled ==
    /\ client' = [client EXCEPT !.got = getAuthToken(authToken)]
    /\ UNCHANGED <<authToken, pc, call, sent, received, result, memo, race, earlier, flow>>

\* checkCellerHutHealth up to its await
HealthProbeSent ==
    /\ client.probe.pos = "idle"
    /\ client' = [client EXCEPT !.probe = [NoProbe EXCEPT !.pos = "await",
                                                          !.req = HealthRequest]]
    /\ UNCHANGED <<authToken, pc, call, sent, received, result, memo, race, earlier, flow>>

\* the probe's GET settles and checkCellerHutHealth finishes
HealthProbeSettled ==
    /\ client.probe.pos = "await"
    /\ \E o \in HealthOutcomes :
          client' = [client EXCEPT !.probe.answer = checkCellerHutHealth(o),
                                   !.probe.outcome = o,
                                   !.probe.pos = "done"]
    /\ UNCHANGED <<authToken, pc, call, sent, received, result, memo, race, earlier, flow>>

\* the caller takes the boolean
HealthProbeReturned ==
    /\ client.probe.pos = "done"
    /\ client' = [client EXCEPT !.probe = NoProbe]
    /\ UNCHANGED <<authToken, pc, call, sent, received, result, memo, race, earlier, flow>>

NextClient ==
    \/ setAuthTokenNoted
    \/ getAuthTokenCalled
    \/ HealthProbeSent
    \/ HealthProbeSettled
    \/ HealthProbeReturned
    \/ Create
    \/ RequestFulfilled
    \/ RequestRejected
    \/ Return

SpecClient == Init /\ [][NextClient]_vars

\* The payment-first flow as its caller drives it: the three steps, the
\* session read and the order lookup are called in any order, one after the
\* other, and an observer keeps the steps that have returned a value.
PaymentFlowSteps ==
    {"validateCheckoutForPayment", "initiatePaymentFirst", "verifyPaymentForOrder"}

ReturnNoted ==
    /\ pc = "done"
    /\ pc' = "idle"
    /\ call' = NoCall
    /\ sent' = <<>>
    /\ received' = <<>>
    /\ result' = NoResult
    /\ UNCHANGED <<authToken, memo, race, earlier, client>>
    /\ flow' = IF call.op \in PaymentFlowSteps /\ result.kind = "return"
               THEN flow \cup {call.op}
               ELSE flow

NextFlow ==
    \/ ValidateCheckoutForPayment
    \/ InitiatePaymentFirst
    \/ GetCheckoutSession
    \/ VerifyPaymentForOrder
    \/ GetOrderByIdOrTrackingNumber
    \/ RequestFulfilled
    \/ RequestRejected
    \/ FallbackToTracking
    \/ ReturnNoted

SpecFlow == Init /\ [][NextFlow]_vars

\* Every request of the client settles: it is answered, or the client's
\* timeout (12000 ms) or the transport rejects it.
RequestSettles == RequestFulfilled \/ RequestRejected \/ FallbackToTracking

SpecLive == Init /\ [][Next]_vars /\ WF_vars(RequestSettles)

-----------------------------------------------------------------------------
(* Properties *)

Last == received[Len(received)]

Done == pc = "done"

\* Body shapes, as the upstream's envelope convention defines them.
IsSuccessEnvelope(b) ==
    /\ b.t = "obj"
    /\ "status" \in DOMAIN b.f /\ b.f["status"] = Str("success")
    /\ "data" \in DOMAIN b.f

IsErrorEnvelope(b) ==
    b.t = "obj" /\ "status" \in DOMAIN b.f /\ b.f["status"] = Str("error")

\* a non-empty string
NonEmptyStr(v) == v.t = "str" /\ v.s # ""

PaymentFirstOps == {"validateCheckoutForPayment", "initiatePaymentFirst"}

\* C1: the visible body of every fulfilled request is the payload D of a
\* success envelope {status:"success", data:D}, whatever D is, and the raw
\* body itself for a body of any other shape.
C1_UnwrapOrPassThrough ==
    \A i \in DOMAIN received :
        received[i].ok =>
            IF IsSuccessEnvelope(received[i].raw)
            THEN received[i].data = received[i].raw.f["data"]
            ELSE received[i].data = received[i].raw

\* a success envelope with a null payload has been received and unwrapped
C1_Witness ==
    /\ Done /\ Last.ok
    /\ IsSuccessEnvelope(Last.raw) /\ Last.raw.f["data"] = Null

\* C2 as stated: the error raised for an error envelope carries the HTTP
\* status and a message equal to the envelope's message M, for every M
\* (empty and missing included).
C2_MessageIsUpstreamMessage ==
    \A i \in DOMAIN received :
        (~received[i].ok /\ IsErrorEnvelope(received[i].raw)) =>
            /\ received[i].error.statusCode = Num(received[i].rawError.status)
            /\ Str(received[i].error.message) = Get(received[i].raw, "message")

\* C2 amended: the error raised for an error envelope carries the HTTP
\* status; its message is M when M is a non-empty string and the default
\* 'An error occurred' when M is empty or missing.
C2_MessageOrDefault ==
    \A i \in DOMAIN received :
        (~received[i].ok /\ IsErrorEnvelope(received[i].raw)) =>
            /\ received[i].error.statusCode = Num(received[i].rawError.status)
            /\ received[i].error.message =
                 IF NonEmptyStr(Get(received[i].raw, "message"))
                 THEN Get(received[i].raw, "message").s
                 ELSE "An error occurred"

\* an error envelope without a message has been received with status 404
C2_Witness ==
    /\ Done /\ ~Last.ok /\ IsErrorEnvelope(Last.raw)
    /\ Get(Last.raw, "message") = Undef
    /\ Last.rawError.status = 404

\* C3: a request of a call that was given a token T carries
\* Authorization "Bearer T", whatever the process-wide slot holds.
C3_CallTokenWins ==
    \A i \in DOMAIN sent :
        NonEmptyStr(call.token) =>
            Get(sent[i].headers, "Authorization") = Str("Bearer " \o call.token.s)

\* C4: a request carries an Authorization header exactly when a token is
\* present for it: a non-empty per-call token, or a non-empty slot at the
\* time the request is sent.
C4_AuthorizationIffToken ==
    \A i \in DOMAIN sent :
        ("Authorization" \in DOMAIN sent[i].headers.f)
            <=> (NonEmptyStr(call.token) \/ NonEmptyStr(sent[i].slot))

\* a call without a token sent one request while the slot held a token and,
\* after setAuthToken(null), a second request without Authorization
C4_Witness ==
    /\ Len(sent) = 2
    /\ call.token = Undef
    /\ NonEmptyStr(sent[1].slot) /\ "Authorization" \in DOMAIN sent[1].headers.f
    /\ sent[2].slot = Null /\ "Authorization" \notin DOMAIN sent[2].headers.f

\* C5: when the upstream rejects a payment-first call with an error envelope
\* whose message M is non-empty, the facade raises an error with message M.
C5_PaymentFirstForwardsMessage ==
    (/\ Done /\ call.op \in PaymentFirstOps
     /\ ~Last.ok /\ IsErrorEnvelope(Last.raw)
     /\ NonEmptyStr(Get(Last.raw, "message")))
        => (result.kind = "raise" /\ result.message = Get(Last.raw, "message").s)

\* The order a fulfilled request carries, bare or in the success envelope.
CarriesOrder(raw) == raw \in Orders \cup {SuccessEnvelope(o) : o \in Orders}
OrderCarried(raw) == IF raw \in Orders THEN raw ELSE raw.f["data"]

\* C6: getOrderByIdOrTrackingNumber(id) whose by-ID GET failed has asked the
\* tracking path /ecommerce/orders/tracking/{id}; when that GET returns an
\* order O the operation returns the transform of O (with gps_tracking added
\* only when O qualifies) and does not raise.
C6_FallbackLaw ==
    (/\ call.op = "getOrderByIdOrTrackingNumber"
     /\ Len(received) >= 1 /\ ~received[1].ok)
        => /\ Len(sent) = 2
           /\ sent[1].url = "/ecommerce/orders/" \o Interp(call.id)
           /\ sent[2].url = "/ecommerce/orders/tracking/" \o Interp(call.id)
           /\ (Done /\ received[2].ok /\ CarriesOrder(received[2].raw)) =>
                 LET O == OrderCarried(received[2].raw)
                     T == transformCellerHutOrder(O)
                 IN  /\ result.kind = "return"
                     /\ \A k \in DOMAIN T.f : Get(result.value, k) = T.f[k]
                     /\ DOMAIN result.value.f \subseteq DOMAIN T.f \cup {"gps_tracking"}
                     /\ ("gps_tracking" \in DOMAIN result.value.f) => TrackingQualifies(O)

\* the by-ID GET failed with 404 and the tracking GET returned an order
C6_Witness ==
    /\ Done /\ call.op = "getOrderByIdOrTrackingNumber"
    /\ Len(received) = 2
    /\ ~received[1].ok /\ received[1].rawError.status = 404
    /\ received[2].ok /\ received[2].raw = SuccessEnvelope(OrderTracked)
    /\ result.kind = "return"


\* C7: getOrderAnalytics, for every shopId and every kind of failure of its
\* GET, returns the all-zero analytics object and does not raise.
C7_AnalyticsZeroOnFailure ==
    (Done /\ call.op = "getOrderAnalytics" /\ ~Last.ok) =>
        /\ result.kind = "return"
        /\ result.value.t = "obj"
        /\ DOMAIN result.value.f =
             {"total_orders", "total_revenue", "pending_orders",
              "completed_orders", "cancelled_orders", "average_order_value"}
        /\ \A k \in DOMAIN result.value.f : result.value.f[k] = Num(0)

\* getOrderAnalytics(shopId) ended after its GET timed out
C7_Witness ==
    /\ Done /\ call.op = "getOrderAnalytics" /\ call.id # Undef
    /\ ~Last.ok /\ Last.rawError.code = "ECONNABORTED"
    /\ result.kind = "return"

\* C8: every operation other than getOrderAnalytics whose outbound requests
\* all failed ends by raising an error, never by returning a value.
C8_OthersRaiseOnFailure ==
    (/\ Done /\ call.op # "getOrderAnalytics"
     /\ \A i \in DOMAIN received : ~received[i].ok)
        => result.kind = "raise"

\* getOrderByIdOrTrackingNumber raised after both of its requests failed
C8_Witness ==
    /\ Done /\ call.op = "getOrderByIdOrTrackingNumber"
    /\ Len(received) = 2 /\ ~received[1].ok /\ ~received[2].ok
    /\ result.kind = "raise"

\* C9: outside the two payment-first operations, two failing runs of the
\* same operation with the same identifier raise the same message, whatever
\* the two upstream failures were.
C9_SameMessageForSameCall ==
    (/\ Done /\ result.kind = "raise"
     /\ memo # NoMemo /\ call.op = memo.op /\ call.id = memo.id
     /\ call.op \notin PaymentFirstOps)
        => result.message = memo.message

\* update(id) failed twice: once on an error envelope with status 404, once
\* on a timeout
C9_Witness ==
    /\ Done /\ result.kind = "raise"
    /\ call.op = "update" /\ memo.op = "update" /\ call.id = memo.id
    /\ memo.error.status = 404 /\ IsErrorEnvelope(memo.error.data)
    /\ ~Last.ok /\ Last.rawError.code = "ECONNABORTED"

\* C10: getOrders whose GET succeeded with a visible body that is not an
\* array returns a paginator with an empty data list and does not raise.
C10_NonArrayYieldsEmptyList ==
    (Done /\ call.op = "getOrders" /\ Last.ok /\ Last.data.t # "arr") =>
        /\ result.kind = "return"
        /\ Get(result.value, "data") = Arr(<<>>)

\* getOrders received an object carrying a nested data list
C10_Witness ==
    /\ Done /\ call.op = "getOrders" /\ Last.ok
    /\ Last.data.t = "obj" /\ Get(Last.data, "data").t = "arr"
    /\ result.kind = "return"

\* C11: create whose POST returned the payload {order:O, payment:P}, P a
\* payment object, returns the transform of O with its payment field equal
\* to P; when the payload is a bare order B (neither an order nor a payment
\* key) it returns exactly the transform of B, with no payment field added.
C11_CreateAttachesPayment ==
    (Done /\ call.op = "create" /\ Last.ok /\ Last.data.t = "obj") =>
        LET O == Get(Last.data, "order")
            P == Get(Last.data, "payment")
        IN  /\ (O.t = "obj" /\ P.t = "obj") =>
                  /\ result.kind = "return"
                  /\ result.value = Put(transformCellerHutOrder(O), "payment", P)
                  /\ Get(result.value, "payment") = P
            /\ (Last.data \in Orders) =>
                  /\ result.kind = "return"
                  /\ result.value = transformCellerHutOrder(Last.data)
                  /\ "payment" \notin DOMAIN result.value.f

\* create returned an order whose payment carries the redirect URL of the
\* upstream's {order, payment} answer
C11_Witness ==
    /\ Done /\ call.op = "create" /\ Last.ok
    /\ Get(Last.data, "order") = OrderPlain
    /\ result.kind = "return"
    /\ Get(Get(result.value, "payment"), "url") = Str("https://pay")

\* C12: updateOrderStatus(id, status) sends exactly one request, a PUT to
\* /orders/{id}/status whose body is exactly {order_status: status}, and on
\* success returns the transform of the visible response body.
C12_UpdateOrderStatusRequest ==
    (call.op = "updateOrderStatus") =>
        /\ Len(sent) = 1
        /\ sent[1].method = "PUT"
        /\ \E i \in 1..MaxId + 1 :
              /\ call.id = Num(21 * i)
              /\ sent[1].url =
                    "/orders/" \o <<"21", "42", "63", "84">>[i] \o "/status"
        /\ sent[1].body.t = "obj"
        /\ DOMAIN sent[1].body.f = {"order_status"}
        /\ sent[1].body.f["order_status"] = call.arg
        /\ (Done /\ Last.ok) =>
              /\ result.kind = "return"
              /\ result.value = transformCellerHutOrder(Last.data)

\* updateOrderStatus(42, "completed") sent its PUT to /orders/42/status and
\* returned after the upstream answered with an order in the envelope
C12_Witness ==
    /\ Done /\ call.op = "updateOrderStatus"
    /\ call.id = Num(42) /\ call.arg = Str("completed")
    /\ sent[1].url = "/orders/42/status"
    /\ sent[1].body = Obj([order_status |-> Str("completed")])
    /\ Last.ok /\ Last.raw = SuccessEnvelope(OrderPlain)
    /\ result.kind = "return"

\* C13: for a failure whose body is not an error envelope, the error the
\* awaiting call receives is a new error with the fixed timeout message when
\* the code is ECONNABORTED, a new error with the fixed network message when
\* the code is ERR_NETWORK, and the original error itself otherwise.
C13_FailureClassification ==
    \A i \in DOMAIN received :
        (~received[i].ok /\ ~IsErrorEnvelope(received[i].raw)) =>
            received[i].error =
                CASE received[i].rawError.code = "ECONNABORTED" ->
                       [code |-> "", data |-> Undef, errors |-> Undef,
                        hasResponse |-> FALSE,
                        message |-> "Request timeout - Ekasi Cart API not responding",
                        status |-> 0, statusCode |-> Undef]
                  [] received[i].rawError.code = "ERR_NETWORK" ->
                       [code |-> "", data |-> Undef, errors |-> Undef,
                        hasResponse |-> FALSE,
                        message |-> "Network error - Unable to reach Ekasi Cart API",
                        status |-> 0, statusCode |-> Undef]
                  [] OTHER -> received[i].rawError

\* a request was answered 500 with a body that is no error envelope, and the
\* call received the original error with its response
C13_Witness ==
    /\ Done /\ ~Last.ok
    /\ Last.rawError.status = 500 /\ Last.raw = Obj([message |-> Str("Bad gateway")])
    /\ Last.error.hasResponse /\ Last.error.code = "ERR_BAD_RESPONSE"

\* C14: one invocation of a facade operation issues at most one request,
\* getOrderByIdOrTrackingNumber at most two; a request that failed is never
\* followed, within the invocation, by another request to the same endpoint
\* (same method and URL).
C14_CallBudgetNoRetry ==
    /\ Len(sent) <= IF call.op = "getOrderByIdOrTrackingNumber" THEN 2 ELSE 1
    /\ Len(received) <= Len(sent)
    /\ \A i \in DOMAIN sent : \A j \in DOMAIN sent :
          (i < j /\ i \in DOMAIN received /\ ~received[i].ok) =>
              ~(sent[j].method = sent[i].method /\ sent[j].url = sent[i].url)

\* getOrderByIdOrTrackingNumber has used its two requests, the second one
\* failed as well, and the operation ended
C14_Witness ==
    /\ Done /\ call.op = "getOrderByIdOrTrackingNumber"
    /\ Len(sent) = 2 /\ Len(received) = 2
    /\ ~received[1].ok /\ ~received[2].ok
    /\ received[2].rawError.code = "ERR_NETWORK"

\* C15: the slot is shared and unsynchronised: a request in flight carries
\* the token of the caller whose setAuthToken ran last before the request
\* passed the interceptor, whichever caller issued the request.
C15_RequestCarriesLastSetToken ==
    \A k \in Callers :
        race.pos[k] = "await" =>
            /\ race.seen[k] \in Callers
            /\ Get(race.req[k].headers, "Authorization") =
                 Str("Bearer " \o <<"T", "G">>[race.seen[k]])

\* caller 1 set its token T and issued a request, caller 2 set its token G
\* in between: the request of caller 1 is in flight carrying "Bearer G"
C15_Witness ==
    /\ race.pos[1] = "await"
    /\ race.pos[2] = "set"
    /\ Get(race.req[1].headers, "Authorization") = Str("Bearer G")

C17_SuccessFlagReturned ==
    (/\ Done /\ call.op = "processPayment" /\ Last.ok
     /\ Last.data.t = "obj" /\ Get(Last.data, "success").t = "bool")
        => /\ result.kind = "return"
           /\ Get(result.value, "success") = Get(Last.data, "success")
           /\ Get(result.value, "payment_intent") = Get(Last.data, "payment_intent")
           /\ Get(result.value, "transaction_id") = Get(Last.data, "transaction_id")

\* C18: verifyCheckout whose POST was answered with the success envelope
\* {status:"success", data:P}, P carrying the six checkout values, returns
\* the six values of P and does not raise.
C18_VerifyCheckoutEndToEnd ==
    (/\ Done /\ call.op = "verifyCheckout" /\ Last.ok
     /\ Last.raw = SuccessEnvelope(CheckoutPayload))
        => /\ result.kind = "return"
           /\ \A k \in DOMAIN CheckoutPayload.f :
                 Get(result.value, k) = CheckoutPayload.f[k]

\* C19: validateCheckoutForPayment whose POST was answered with the success
\* envelope {status:"success", message:M, data:{sessionId:S, validated:V}}
\* returns {sessionId:S, validated:V, message:M} and does not raise.
C19_ValidateCheckoutEndToEnd ==
    (/\ Done /\ call.op = "validateCheckoutForPayment" /\ Last.ok
     /\ IsSuccessEnvelope(Last.raw)
     /\ Get(Last.raw, "data").t = "obj"
     /\ DOMAIN Get(Last.raw, "data").f = {"sessionId", "validated"})
        => /\ result.kind = "return"
           /\ Get(result.value, "sessionId") = Get(Get(Last.raw, "data"), "sessionId")
           /\ Get(result.value, "validated") = Get(Get(Last.raw, "data"), "validated")
           /\ Get(result.value, "message") = Get(Last.raw, "message")

\* C20: the GET /orders request of getOrdersByCustomer(customerId, options)
\* has customer_id = customerId, that of getOrdersByShop(shopId, options)
\* has shop_id = shopId, for every option bag.
C20_FilteredByArgument ==
    \A i \in DOMAIN sent :
        /\ call.op = "getOrdersByCustomer" =>
              Get(sent[i].params, "customer_id") = call.id
        /\ call.op = "getOrdersByShop" =>
              Get(sent[i].params, "shop_id") = call.id

\* C21: checkCellerHutHealth sends a GET to {base URL}/health without an
\* Authorization header, whatever the slot holds, and ends by returning a
\* boolean: true exactly when the GET completed with status 200, false for
\* every other status, for a timeout and for a network failure.
C21_HealthProbe ==
    /\ client.probe.pos # "idle" =>
          /\ client.probe.req.method = "GET"
          /\ client.probe.req.url = "https://api.ekasicart.com/health"
          /\ "Authorization" \notin DOMAIN client.probe.req.headers.f
    /\ client.probe.pos = "done" =>
          /\ client.probe.answer \in {Bool(TRUE), Bool(FALSE)}
          /\ client.probe.answer = Bool(TRUE) <=>
                (client.probe.outcome.ok /\ client.probe.outcome.status = 200)

\* the probe's GET completed with status 204 while the slot held a token:
\* the probe returned false
C21_Witness ==
    /\ client.probe.pos = "done"
    /\ client.probe.outcome.ok /\ client.probe.outcome.status = 204
    /\ client.probe.answer = Bool(FALSE)
    /\ authToken = Str("T")

\* C22: the slot is null initially and always holds the argument of the
\* most recent setAuthToken (null after setAuthToken(null)): getAuthToken,
\* the requests sent through the client and the health probe leave it as it
\* is; getAuthToken returns that argument.
C22_GetReturnsLastSet ==
    /\ authToken = client.arg
    /\ client.got # NotAsked => client.got = client.arg

\* a request left the client while the slot held T, setAuthToken(null) then
\* cleared the slot and getAuthToken returned null
C22_Witness ==
    /\ Len(sent) = 1 /\ sent[1].slot = Str("T")
    /\ client.arg = Null
    /\ client.got = Null

\* C23: getOrderStatus whose GET succeeded with an object returns the
\* upstream order_status when the payload has one and "pending" when it has
\* none; independently, the upstream payment_status when the payload has one
\* and "pending" when it has none; id and updated_at are copied.
C23_StatusDefaults ==
    (Done /\ call.op = "getOrderStatus" /\ Last.ok /\ Last.data.t = "obj") =>
        /\ result.kind = "return"
        /\ Get(result.value, "order_status") =
             IF "order_status" \in DOMAIN Last.data.f
             THEN Last.data.f["order_status"] ELSE Str("pending")
        /\ Get(result.value, "payment_status") =
             IF "payment_status" \in DOMAIN Last.data.f
             THEN Last.data.f["payment_status"] ELSE Str("pending")
        /\ Get(result.value, "id") = Get(Last.data, "id")
        /\ Get(result.value, "updated_at") = Get(Last.data, "updated_at")

\* the upstream snapshot had a payment_status and no order_status:
\* getOrderStatus returned order_status "pending" next to the upstream
\* payment_status
C23_Witness ==
    /\ Done /\ call.op = "getOrderStatus" /\ Last.ok
    /\ Last.data = StatusPaymentOnly
    /\ Get(result.value, "order_status") = Str("pending")
    /\ Get(result.value, "payment_status") = Str("refunded")

\* C24: getOrderByIdOrTrackingNumber that got an upstream order returns an
\* order with a gps_tracking field exactly when the upstream order has a
\* truthy tracking_enabled and a truthy tookan_job_id; the six fields of
\* gps_tracking are then those of that upstream order.
C24_GpsTrackingIffQualified ==
    (/\ Done /\ call.op = "getOrderByIdOrTrackingNumber"
     /\ Last.ok /\ Last.data.t = "obj")
        => /\ result.kind = "return"
           /\ ("gps_tracking" \in DOMAIN result.value.f) <=>
                 (/\ Get(Last.data, "tracking_enabled") = Bool(TRUE)
                  /\ NonEmptyStr(Get(Last.data, "tookan_job_id")))
           /\ ("gps_tracking" \in DOMAIN result.value.f) =>
                 LET g == result.value.f["gps_tracking"]
                 IN  /\ g.t = "obj"
                     /\ DOMAIN g.f = {"trackingEnabled", "trackingUrl", "deliveryService",
                                      "orderId", "orderNumber", "orderStatus"}
                     /\ g.f["trackingEnabled"] = Get(Last.data, "tracking_enabled")
                     /\ g.f["trackingUrl"] = Get(Last.data, "tracking_url")
                     /\ g.f["deliveryService"] = Get(Last.data, "delivery_service")
                     /\ g.f["orderId"] = Get(Last.data, "id")
                     /\ g.f["orderNumber"] = Get(Last.data, "tracking_number")
                     /\ g.f["orderStatus"] = Get(Last.data, "order_status")

\* the lookup returned the tracked order with its gps_tracking sub-object
C24_Witness ==
    /\ Done /\ call.op = "getOrderByIdOrTrackingNumber" /\ Last.ok
    /\ Last.data = OrderTracked
    /\ result.kind = "return"
    /\ Get(Get(result.value, "gps_tracking"), "trackingUrl") = Str("https://track")

\* C25: the response interceptor unwraps one level: a success envelope
\* whose payload D is itself a success envelope yields D; a body that is not
\* a success envelope is returned as it is, so a second pass over a visible
\* body that is not a success envelope changes nothing.
C25_UnwrapsOneLevel ==
    \A i \in DOMAIN received :
        received[i].ok =>
            /\ (/\ IsSuccessEnvelope(received[i].raw)
                /\ IsSuccessEnvelope(received[i].raw.f["data"]))
                  => received[i].data = received[i].raw.f["data"]
            /\ ~IsSuccessEnvelope(received[i].raw) =>
                  ResponseInterceptor(received[i].raw) = received[i].raw
            /\ ~IsSuccessEnvelope(received[i].data) =>
                  ResponseInterceptor(received[i].data) = received[i].data

\* the upstream answered with an envelope inside an envelope and the call
\* received the inner envelope
C25_Witness ==
    /\ Done /\ Last.ok
    /\ Last.raw = SuccessEnvelope(SuccessEnvelope(OrderPlain))
    /\ Last.data = SuccessEnvelope(OrderPlain)


\* C26: the three steps of the payment-first flow are independent calls:
\* whenever no call is running each of them can be invoked, whichever steps
\* have returned before; an invocation of a step sends one request, the POST
\* to that step's own endpoint, and nothing after it, whether the step
\* returns or raises, so no request cancels or cleans up the session.
C26_PaymentFlowIndependent ==
    /\ pc = "idle" =>
          /\ ENABLED ValidateCheckoutForPayment
          /\ ENABLED InitiatePaymentFirst
          /\ ENABLED VerifyPaymentForOrder
    /\ call.op \in PaymentFlowSteps =>
          /\ Len(sent) = 1
          /\ sent[1].method = "POST"
          /\ sent[1].url =
                CASE call.op = "validateCheckoutForPayment" -> "/ecommerce/checkout/validate"
                  [] call.op = "initiatePaymentFirst" ->
                       "/ecommerce/payments/initiate-payment-first"
                  [] call.op = "verifyPaymentForOrder" -> "/ecommerce/payments/verify-for-order"
    /\ \A i \in DOMAIN sent : sent[i].method \in {"GET", "POST"}

\* validation and verification have returned, initiation has not, and an
\* initiatePaymentFirst call has just raised after its single request
C26_Witness ==
    /\ Done /\ call.op = "initiatePaymentFirst" /\ result.kind = "raise"
    /\ flow = {"validateCheckoutForPayment", "verifyPaymentForOrder"}
    /\ Len(sent) = 1 /\ Len(received) = 1


\* C27: every facade call terminates: when every request settles, a call
\* suspended at its request is eventually resumed and ends with a returned
\* value or a raised error.
C27_EveryCallCompletes ==
    (pc = "await") ~> (pc = "done" /\ result.kind \in {"return", "raise"})

\* the lookup was suspended twice, both requests ran into the client's
\* timeout, and the call ended by raising
C27_Witness ==
    /\ Done /\ call.op = "getOrderByIdOrTrackingNumber"
    /\ Len(sent) = 2 /\ Len(received) = 2
    /\ received[1].rawError.code = "ECONNABORTED"
    /\ received[2].rawError.code = "ECONNABORTED"
    /\ result.kind = "raise"


\* C28: in getOrderByIdOrTrackingNumber(id) the tracking GET is sent exactly
\* when the by-ID GET has failed, after a failure of any kind and never after
\* a fulfilled by-ID GET; it is handed the headers the by-ID GET was handed;
\* and when both GETs have failed the operation raises
\* 'Order with ID/tracking "<id>" not found', whatever the failures were.
C28_TrackingOnlyAfterFailure ==
    call.op = "getOrderByIdOrTrackingNumber" =>
        /\ Len(sent) = 2 <=> (Len(received) >= 1 /\ ~received[1].ok)
        /\ (Len(received) >= 1 /\ received[1].ok) => (Done /\ Len(sent) = 1)
        /\ Len(sent) = 2 =>
              /\ sent[1].method = "GET" /\ sent[2].method = "GET"
              /\ sent[1].url = "/ecommerce/orders/" \o Interp(call.id)
              /\ sent[2].url = "/ecommerce/orders/tracking/" \o Interp(call.id)
              /\ \A i \in {1, 2} :
                    sent[i].headers =
                        RequestInterceptor(TokenHeaders(call.token), sent[i].slot)
              /\ sent[1].slot = sent[2].slot => sent[1].headers = sent[2].headers
        /\ (Done /\ Len(received) = 2 /\ ~received[2].ok) =>
              /\ result.kind = "raise"
              /\ result.message =
                    "Order with ID/tracking \"" \o Interp(call.id) \o "\" not found"

\* a lookup with a per-call token: the by-ID GET was answered 500 with an
\* error envelope, the tracking GET was cancelled, and the call raised
C28_Witness ==
    /\ Done /\ call.op = "getOrderByIdOrTrackingNumber" /\ call.token = Str("T")
    /\ Len(sent) = 2 /\ Len(received) = 2
    /\ received[1].rawError.status = 500 /\ IsErrorEnvelope(received[1].raw)
    /\ received[2].rawError.code = "ERR_CANCELED"
    /\ result.kind = "raise"


\* C29: validateCheckoutForPayment and initiatePaymentFirst raise the
\* message of the failed response's body exactly when that body is an object
\* that is not an error envelope and has a non-empty message; after an error
\* envelope, a timeout, a network failure or any other failure without a
\* response they raise their fixed message.
C29_UpstreamMessageOnlyWithResponse ==
    (Done /\ call.op \in PaymentFirstOps /\ ~Last.ok) =>
        LET fixed == IF call.op = "validateCheckoutForPayment"
                     THEN "Failed to validate checkout for payment"
                     ELSE "Failed to initiate payment"
            body == Last.raw
            answered == Last.rawError.hasResponse
            hasMessage == body.t = "obj" /\ NonEmptyStr(Get(body, "message"))
        IN  /\ result.kind = "raise"
            /\ (~answered \/ IsErrorEnvelope(body)) => result.message = fixed
            /\ (answered /\ ~IsErrorEnvelope(body) /\ hasMessage) =>
                  /\ result.message = Get(body, "message").s
                  /\ Last.error.hasResponse
            /\ (hasMessage /\ result.message = Get(body, "message").s) =>
                  (answered /\ ~IsErrorEnvelope(body))

\* validateCheckoutForPayment was answered 500 with the body
\* {message: "Bad gateway"} and raised "Bad gateway"
C29_Witness ==
    /\ Done /\ call.op = "validateCheckoutForPayment"
    /\ ~Last.ok /\ Last.rawError.status = 500
    /\ Last.raw = Obj([message |-> Str("Bad gateway")])
    /\ result.kind = "raise" /\ result.message = "Bad gateway"


\* C30: no step of a facade operation (its invocation, the settling of its
\* requests, its fallback request, its return or raise) changes the token
\* slot, with or without a per-call token: every step that changes the slot
\* leaves the call untouched, which only setAuthToken does.
C30_SlotFrame ==
    [][authToken' # authToken =>
          (/\ pc' = pc /\ call' = call /\ sent' = sent
           /\ received' = received /\ result' = result)]_vars

\* a call given the per-call token T has run to its end, successfully, while
\* the slot held G, and the slot still holds G
C30_Witness ==
    /\ Done /\ call.op = "create" /\ call.token = Str("T")
    /\ sent[1].slot = Str("G") /\ authToken = Str("G")
    /\ result.kind = "return"

=============================================================================
